---- MODULE Spec2Model ----
(***************************************************************************)
(* Model of the useLocationAlerts hook (src/src/hooks/useLocationAlerts.ts *)
(* lines 56-346) of SafeZone: the React state and refs of the hook, the    *)
(* closures its callbacks and effects capture, and the reactions the       *)
(* JavaScript event loop delivers to it (device-location completion, feed  *)
(* snapshot, feed error, write completion, display timer, user actions).   *)
(*                                                                         *)
(* One action is one reaction: the handler, the re-render it causes and    *)
(* the effects of that render (cleanup, then body, in declaration order),  *)
(* repeated until no dependency changes.  A callback reads React state     *)
(* from the render that created it (useCallback / effect closure) and      *)
(* reads refs live.                                                        *)
(*                                                                         *)
(* Coordinates are metres on the local tangent plane at 'Safe Park'        *)
(* (x east, y north); getDistance is the planar distance rounded down to   *)
(* a metre, which agrees with the haversine distance to < 1 m at this      *)
(* scale.  Time is in milliseconds and advances by TickMs.                 *)
(*                                                                         *)
(* The event store is the environment: its newest document changes at any  *)
(* time (FeedChange) and the current snapshot is delivered after every     *)
(* change and to every new subscription.  The subscription is taken to     *)
(* stay usable after its error callback has run.                           *)
(***************************************************************************)
EXTENDS Integers, Sequences, FiniteSets, TLC

\* ---------------------------------------------------------------- bounds
MaxWrites == 2        \* store writes in flight at once
AgeCap == 61000       \* event ages are tracked up to this age (ms)

\* ------------------------------------------------------ program constants
DANGER_CHECK_RADIUS == 500
EVENT_RADIUS == 1000
RECENCY_WINDOW == 60000
DISPLAY_MS == 10000
TickMs == DISPLAY_MS   \* time advances by one display window

\* ------------------------------------------------------------- locations
NoLocation ==
  [kind |-> "null", name |-> "", x |-> 0, y |-> 0, isDangerous |-> FALSE]

GpsLocation(px, py) ==
  [kind |-> "gps", name |-> "", x |-> px, y |-> py, isDangerous |-> FALSE]

DefinedLocation(n, px, py, d) ==
  [kind |-> "named", name |-> n, x |-> px, y |-> py, isDangerous |-> d]

\* (34.0522,-118.2437) (34.0550,-118.2450) (34.0400,-118.2500) (34.0500,-118.2550)
PREDEFINED_LOCATIONS ==
  << DefinedLocation("Safe Park", 0, 0, FALSE),
     DefinedLocation("Downtown Crossing", -120, 311, TRUE),
     DefinedLocation("Skid Row Adjacent", -580, -1357, TRUE),
     DefinedLocation("Library Square", -1041, -245, FALSE) >>

\* fixes the device provider may return: 500 m north of Downtown Crossing
\* (on the proximity radius), one metre further north (outside it), and a
\* point 1900 m east of Safe Park
GpsFixes ==
  { GpsLocation(-120, 811), GpsLocation(-120, 812), GpsLocation(1900, 0) }

\* coordinates of the events the store may hold: 900 m and 1000 m east of
\* Safe Park, and at Downtown Crossing
EventLocations ==
  { [x |-> 900, y |-> 0], [x |-> 1000, y |-> 0], [x |-> -120, y |-> 311] }

GeolocationErrors ==
  { "Geolocation is not supported by your browser.",
    "User denied the request for Geolocation.",
    "Location information is unavailable.",
    "The request to get user location timed out.",
    "An unknown error occurred while retrieving location." }

NoError == "<null>"

\* ------------------------------------------------------------- distance
RECURSIVE SqrtFloor(_, _, _)
SqrtFloor(n, lo, hi) ==
  IF lo >= hi THEN lo
  ELSE LET mid == (lo + hi + 1) \div 2
       IN IF mid * mid <= n THEN SqrtFloor(n, mid, hi)
          ELSE SqrtFloor(n, lo, mid - 1)

\* variant of getDistance that adds the signed offsets instead of squaring them
getDistance_signed(loc1, loc2) ==
  (loc2.x - loc1.x) + (loc2.y - loc1.y)

getDistance(loc1, loc2) ==
  LET dx == loc2.x - loc1.x
      dy == loc2.y - loc1.y
  IN SqrtFloor(dx * dx + dy * dy, 0, 8192)

\* variant of the search that returns the nearest hazardous site in the radius
FirstNear_nearest(catalog, location, i) ==
  LET near == { k \in i..Len(catalog) :
                  /\ catalog[k].isDangerous
                  /\ getDistance(location, catalog[k]) <= DANGER_CHECK_RADIUS }
  IN IF near = {} THEN [isNear |-> FALSE, name |-> ""]
     ELSE LET k == CHOOSE n \in near :
                     \A m \in near : getDistance(location, catalog[n])
                                       <= getDistance(location, catalog[m])
          IN [isNear |-> TRUE, name |-> catalog[k].name]

RECURSIVE FirstNear(_, _, _)
FirstNear(catalog, location, i) ==
  IF i > Len(catalog) THEN [isNear |-> FALSE, name |-> ""]
  ELSE IF catalog[i].isDangerous
          /\ getDistance(location, catalog[i]) <= DANGER_CHECK_RADIUS
       THEN [isNear |-> TRUE, name |-> catalog[i].name]
       ELSE FirstNear(catalog, location, i + 1)

checkProximityToDanger(location) == FirstNear(PREDEFINED_LOCATIONS, location, 1)

\* ------------------------------------------------------------ alert state
NoAlert == [type |-> "null", text |-> "", name |-> ""]
GunshotAlert == [type |-> "gunshot", text |-> "Gunshot detected nearby! Take cover!", name |-> ""]
CrimeAlert(t, n) == [type |-> "crime", text |-> t, name |-> n]

\* ------------------------------------------------------------------ feed
EmptySnapshot == [empty |-> TRUE, x |-> 0, y |-> 0, pending |-> FALSE, age |-> 0]
EventSnapshot(l, p, a) == [empty |-> FALSE, x |-> l.x, y |-> l.y, pending |-> p, age |-> a]

InitialAges == {0, 59000, 60000, 61000}

Snapshots ==
  {EmptySnapshot}
  \cup { EventSnapshot(l, TRUE, 0) : l \in EventLocations }
  \cup { EventSnapshot(l, FALSE, a) : l \in EventLocations, a \in InitialAges }

VARIABLES
  currentLocation,        \* useState: DefinedLocation | Location | null
  locationSource,         \* useState: "gps" | "manual" | "null"
  alertState,             \* useState: AlertState
  isLoadingLocation,      \* useState
  error,                  \* useState: message or NoError
  showSideNotification,   \* useState
  isGunshotAlertActive,   \* useRef (SuppressionFlag)
  sideNotificationTimer,  \* useRef: id of the timeout it holds, 0 for null
  timeouts,               \* pending setTimeout callbacks with their closures
  geoRequests,            \* pending getGeoLocation() promises with their closures
  geoRequestCount,        \* number of getGeoLocation() calls made
  pendingWrites,          \* addDoc() promises not yet settled
  feed,                   \* newest document of gunshotEvents (the snapshot)
  feedPending,            \* a snapshot delivery to the listener is queued
  mounted,                \* the component is mounted
  lastFeedActive,         \* isRecent && isNearby of the last delivery
  lastOp                  \* the reaction that produced this state

vars == << currentLocation, locationSource, alertState, isLoadingLocation,
           error, showSideNotification, isGunshotAlertActive,
           sideNotificationTimer, timeouts, geoRequests, geoRequestCount,
           pendingWrites, feed, feedPending, mounted, lastFeedActive, lastOp >>

\* the part of the state that handlers and effects read and write
Hook ==
  [ currentLocation |-> currentLocation,
    locationSource |-> locationSource,
    alertState |-> alertState,
    isLoadingLocation |-> isLoadingLocation,
    error |-> error,
    showSideNotification |-> showSideNotification,
    isGunshotAlertActive |-> isGunshotAlertActive,
    sideNotificationTimer |-> sideNotificationTimer,
    timeouts |-> timeouts,
    geoRequests |-> geoRequests,
    geoRequestCount |-> geoRequestCount,
    pendingWrites |-> pendingWrites,
    feedPending |-> feedPending,
    mounted |-> mounted ]

Commit(h) ==
  /\ currentLocation' = h.currentLocation
  /\ locationSource' = h.locationSource
  /\ alertState' = h.alertState
  /\ isLoadingLocation' = h.isLoadingLocation
  /\ error' = h.error
  /\ showSideNotification' = h.showSideNotification
  /\ isGunshotAlertActive' = h.isGunshotAlertActive
  /\ sideNotificationTimer' = h.sideNotificationTimer
  /\ timeouts' = h.timeouts
  /\ geoRequests' = h.geoRequests
  /\ geoRequestCount' = h.geoRequestCount
  /\ pendingWrites' = h.pendingWrites
  /\ feedPending' = h.feedPending
  /\ mounted' = h.mounted

\* a state setter is ignored once the component is unmounted
SetState(h, field, value) ==
  IF h.mounted THEN [h EXCEPT ![field] = value] ELSE h

\* --------------------------------------------------------------- timers
clearTimeout(h, id) ==
  [h EXCEPT !.timeouts = { t \in h.timeouts : t.id # id }]

NewTimerId(h) ==
  CHOOSE i \in 1..(Cardinality(h.timeouts) + 1) :
    \A t \in h.timeouts : t.id # i

\* setTimeout(callback, DISPLAY_MS); the callback closes over the
\* currentLocation and the updateAlertForLocation (alertState.type) of the
\* render that created the function that set it
setDisplayTimeout(h, by, location, alertType) ==
  LET id == NewTimerId(h)
  IN [h EXCEPT !.timeouts = @ \cup { [id |-> id, by |-> by,
                                       location |-> location,
                                       alertType |-> alertType,
                                       remaining |-> DISPLAY_MS] },
               !.sideNotificationTimer = id]

\* variant of clearSideNotification that cancels the timer and leaves the
\* notification visible
clearSideNotification_keepVisible(h) ==
  IF h.sideNotificationTimer # 0
  THEN [clearTimeout(h, h.sideNotificationTimer) EXCEPT !.sideNotificationTimer = 0]
  ELSE h

clearSideNotification(h) ==
  LET h1 == IF h.sideNotificationTimer # 0
            THEN [clearTimeout(h, h.sideNotificationTimer)
                    EXCEPT !.sideNotificationTimer = 0]
            ELSE h
  IN SetState(h1, "showSideNotification", FALSE)

\* ------------------------------------------------ updateAlertForLocation
\* alertType is the alertState.type captured by the useCallback closure
DangerCheck(location) ==
  IF location.kind = "named"
  THEN [isNear |-> location.isDangerous, name |-> location.name]
  ELSE checkProximityToDanger(location)

CrimeMessage(location, check) ==
  IF location.kind = "named" THEN CrimeAlert("Selected location is a high-risk area", location.name)
  ELSE IF check.name # "" THEN CrimeAlert("Near high-risk area", check.name)
  ELSE CrimeAlert("Entering a high-risk area", "")

updateAlertForLocation(h, alertType, location) ==
  IF h.isGunshotAlertActive THEN h
  ELSE
    LET h1 == clearSideNotification(h)
    IN IF location.kind = "null"
       THEN IF alertType = "crime" THEN SetState(h1, "alertState", NoAlert) ELSE h1
       ELSE LET check == DangerCheck(location)
            IN IF check.isNear
               THEN IF alertType # "gunshot"
                    THEN SetState(h1, "alertState", CrimeMessage(location, check))
                    ELSE h1
               ELSE IF alertType = "crime" \/ alertType = "null"
                    THEN SetState(h1, "alertState", NoAlert)
                    ELSE h1

\* ---------------------------------------------------------------- effects
\* what the dependency arrays of the three effects compare
Deps(h) ==
  [ currentLocation |-> h.currentLocation,
    locationSource |-> h.locationSource,
    alertType |-> h.alertState.type ]

\* variant of the cleanup that leaves the display timer pending
GpsEffectCleanup_keepTimer(h) ==
  [h EXCEPT !.geoRequests = { [r EXCEPT !.isMounted = FALSE] : r \in @ }]

\* cleanup of the GPS effect: isMounted = false; clearSideNotification()
GpsEffectCleanup(h) ==
  clearSideNotification(
    [h EXCEPT !.geoRequests = { [r EXCEPT !.isMounted = FALSE] : r \in @ }])

\* variant of the GPS effect that fetches whenever the source is not manual
GpsEffect_refetch(h, r) ==
  IF r.locationSource # "manual"
  THEN LET h1 == SetState(SetState(h, "isLoadingLocation", TRUE), "error", NoError)
       IN [h1 EXCEPT !.geoRequestCount = @ + 1,
                     !.geoRequests = @ \cup { [id |-> h.geoRequestCount + 1,
                                               isMounted |-> TRUE,
                                               alertType |-> r.alertType] }]
  ELSE SetState(h, "isLoadingLocation", FALSE)

\* body of the GPS effect, run with the values of render 'r'
GpsEffect(h, r) ==
  IF r.currentLocation.kind = "null" /\ r.locationSource # "manual"
  THEN LET h1 == SetState(SetState(h, "isLoadingLocation", TRUE), "error", NoError)
       IN [h1 EXCEPT !.geoRequestCount = @ + 1,
                     !.geoRequests = @ \cup { [id |-> h.geoRequestCount + 1,
                                               isMounted |-> TRUE,
                                               alertType |-> r.alertType] }]
  ELSE SetState(h, "isLoadingLocation", FALSE)

\* body of the location-change effect
LocationEffect(h, r) ==
  IF ~h.isGunshotAlertActive
  THEN updateAlertForLocation(h, r.alertType, r.currentLocation)
  ELSE h

\* the listener effect: unsubscribe() on cleanup, onSnapshot() on run; the
\* store delivers the current snapshot to a new subscription
ListenerEffectCleanup(h) == [h EXCEPT !.feedPending = FALSE]

ListenerEffect(h) == [h EXCEPT !.feedPending = TRUE]

\* variant in which the listener effect does not depend on currentLocation
RunEffects_listenerOnType(prev, cur, h) ==
  LET gpsDep == cur.locationSource # prev.locationSource
      locDep == cur.currentLocation # prev.currentLocation
                \/ cur.alertType # prev.alertType
      lisDep == cur.alertType # prev.alertType
      c1 == IF gpsDep THEN GpsEffectCleanup(h) ELSE h
      c2 == IF lisDep THEN ListenerEffectCleanup(c1) ELSE c1
      e1 == IF gpsDep THEN GpsEffect(c2, cur) ELSE c2
      e2 == IF locDep THEN LocationEffect(e1, cur) ELSE e1
      e3 == IF lisDep THEN ListenerEffect(e2) ELSE e2
  IN e3

\* the effects of the render with values 'cur' that follows the render 'prev'
RunEffects(prev, cur, h) ==
  LET gpsDep == cur.locationSource # prev.locationSource
      locDep == cur.currentLocation # prev.currentLocation
                \/ cur.alertType # prev.alertType
      c1 == IF gpsDep THEN GpsEffectCleanup(h) ELSE h
      c2 == IF locDep THEN ListenerEffectCleanup(c1) ELSE c1
      e1 == IF gpsDep THEN GpsEffect(c2, cur) ELSE c2
      e2 == IF locDep THEN LocationEffect(e1, cur) ELSE e1
      e3 == IF locDep THEN ListenerEffect(e2) ELSE e2
  IN e3

\* render and run effects until no dependency changes
RECURSIVE Flush(_, _)
Flush(prev, h) ==
  LET cur == Deps(h)
  IN IF cur = prev \/ ~h.mounted THEN h
     ELSE Flush(cur, RunEffects(prev, cur, h))

\* a reaction: the handler's result, re-rendered
React(h) == Flush(Deps(Hook), h)

\* --------------------------------------------------------------- handlers
\* variant of the .then handler without the isMounted guard
getGeoLocationResolved_unguarded(h, r, location) ==
  SetState(SetState(SetState([h EXCEPT !.geoRequests = @ \ {r}],
                             "currentLocation", location),
                    "locationSource", "gps"),
           "isLoadingLocation", FALSE)

\* .then of getGeoLocation()
getGeoLocationResolved(h, r, location) ==
  LET h0 == [h EXCEPT !.geoRequests = @ \ {r}]
  IN IF r.isMounted
     THEN SetState(SetState(SetState(h0, "currentLocation", location),
                            "locationSource", "gps"),
                   "isLoadingLocation", FALSE)
     ELSE h0

\* variant of the .catch handler that leaves the loading indicator on
getGeoLocationRejected_keepLoading(h, r, message) ==
  LET h0 == [h EXCEPT !.geoRequests = @ \ {r}]
      h1 == SetState(h0, "error", message)
      h2 == IF r.alertType = "crime" THEN SetState(h1, "alertState", NoAlert) ELSE h1
  IN IF r.isMounted THEN clearSideNotification(h2) ELSE h0

\* variant of the .catch handler that clears whatever alert is shown
getGeoLocationRejected_clearAlert(h, r, message) ==
  LET h0 == [h EXCEPT !.geoRequests = @ \ {r}]
      h1 == SetState(SetState(h0, "error", message), "isLoadingLocation", FALSE)
      h2 == SetState(h1, "alertState", NoAlert)
  IN IF r.isMounted THEN clearSideNotification(h2) ELSE h0

\* .catch of getGeoLocation()
getGeoLocationRejected(h, r, message) ==
  LET h0 == [h EXCEPT !.geoRequests = @ \ {r}]
      h1 == SetState(SetState(h0, "error", message), "isLoadingLocation", FALSE)
      h2 == IF r.alertType = "crime" THEN SetState(h1, "alertState", NoAlert) ELSE h1
  IN IF r.isMounted THEN clearSideNotification(h2) ELSE h0

\* variant of manuallySetLocation that does not record the source
manuallySetLocation_keepSource(h, location) ==
  LET h1 == SetState(SetState(h, "error", NoError), "isLoadingLocation", FALSE)
      h2 == clearSideNotification([h1 EXCEPT !.isGunshotAlertActive = FALSE])
  IN SetState(h2, "currentLocation", location)

\* variant of manuallySetLocation that keeps a reported error
manuallySetLocation_keepError(h, location) ==
  LET h1 == SetState(h, "isLoadingLocation", FALSE)
      h2 == clearSideNotification([h1 EXCEPT !.isGunshotAlertActive = FALSE])
  IN SetState(SetState(h2, "currentLocation", location), "locationSource", "manual")

manuallySetLocation(h, location) ==
  LET h1 == SetState(SetState(h, "error", NoError), "isLoadingLocation", FALSE)
      h2 == clearSideNotification([h1 EXCEPT !.isGunshotAlertActive = FALSE])
  IN SetState(SetState(h2, "currentLocation", location), "locationSource", "manual")

NoLocationError == "Cannot simulate gunshot without a location selected."
WriteError == "Failed to simulate gunshot event."

\* variant of simulateGunshot without the no-location guard
simulateGunshot_unguarded(h) ==
  LET h1 == SetState(h, "error", NoError)
      h2 == SetState([h1 EXCEPT !.isGunshotAlertActive = TRUE],
                     "alertState", GunshotAlert)
      h3 == SetState(h2, "showSideNotification", TRUE)
      h4 == IF h3.sideNotificationTimer # 0
            THEN clearTimeout(h3, h3.sideNotificationTimer) ELSE h3
      h5 == setDisplayTimeout(h4, "simulate", h.currentLocation, h.alertState.type)
  IN [h5 EXCEPT !.pendingWrites = @ + 1]

\* variant of simulateGunshot that only writes the event and leaves the alert
\* to the listener (lines 441-458)
simulateGunshot_writeFirst(h) ==
  IF h.currentLocation.kind = "null"
  THEN SetState(h, "error", NoLocationError)
  ELSE [SetState(h, "error", NoError) EXCEPT !.pendingWrites = @ + 1]

\* variant of simulateGunshot without the clearTimeout before setTimeout
simulateGunshot_noClear(h) ==
  IF h.currentLocation.kind = "null"
  THEN SetState(h, "error", NoLocationError)
  ELSE LET h1 == SetState(h, "error", NoError)
           h2 == SetState([h1 EXCEPT !.isGunshotAlertActive = TRUE],
                          "alertState", GunshotAlert)
           h3 == SetState(h2, "showSideNotification", TRUE)
           h5 == setDisplayTimeout(h3, "simulate", h.currentLocation, h.alertState.type)
       IN [h5 EXCEPT !.pendingWrites = @ + 1]

\* variant of simulateGunshot that sets the flag before the no-location guard
simulateGunshot_flagFirst(h) ==
  LET f == [h EXCEPT !.isGunshotAlertActive = TRUE]
  IN IF h.currentLocation.kind = "null"
     THEN SetState(f, "error", NoLocationError)
     ELSE LET h1 == SetState(f, "error", NoError)
              h2 == SetState(h1, "alertState", GunshotAlert)
              h3 == SetState(h2, "showSideNotification", TRUE)
              h4 == IF h3.sideNotificationTimer # 0
                    THEN clearTimeout(h3, h3.sideNotificationTimer) ELSE h3
              h5 == setDisplayTimeout(h4, "simulate", h.currentLocation, h.alertState.type)
          IN [h5 EXCEPT !.pendingWrites = @ + 1]

\* simulateGunshot up to the await of addDoc()
simulateGunshot(h) ==
  IF h.currentLocation.kind = "null"
  THEN SetState(h, "error", NoLocationError)
  ELSE LET h1 == SetState(h, "error", NoError)
           h2 == SetState([h1 EXCEPT !.isGunshotAlertActive = TRUE],
                          "alertState", GunshotAlert)
           h3 == SetState(h2, "showSideNotification", TRUE)
           h4 == IF h3.sideNotificationTimer # 0
                 THEN clearTimeout(h3, h3.sideNotificationTimer) ELSE h3
           h5 == setDisplayTimeout(h4, "simulate", h.currentLocation, h.alertState.type)
       IN [h5 EXCEPT !.pendingWrites = @ + 1]

\* variant of the catch block that only reports the error
addDocRejected_keepWindow(h) ==
  SetState([h EXCEPT !.pendingWrites = @ - 1], "error", WriteError)

\* variant of the catch block that also rolls the alert back
addDocRejected_rollback(h) ==
  LET h1 == SetState([h EXCEPT !.pendingWrites = @ - 1], "error", WriteError)
      h2 == clearSideNotification([h1 EXCEPT !.isGunshotAlertActive = FALSE])
  IN SetState(h2, "alertState", NoAlert)

\* the catch block of simulateGunshot, entered when addDoc() rejects
addDocRejected(h) ==
  LET h1 == SetState([h EXCEPT !.pendingWrites = @ - 1], "error", WriteError)
  IN clearSideNotification([h1 EXCEPT !.isGunshotAlertActive = FALSE])

addDocResolved(h) == [h EXCEPT !.pendingWrites = @ - 1]

\* the callback of both setTimeout calls
displayTimerCallback(h, t) ==
  LET h0 == [h EXCEPT !.timeouts = @ \ {t}]
      h1 == SetState(h0, "showSideNotification", FALSE)
      h2 == [h1 EXCEPT !.sideNotificationTimer = 0, !.isGunshotAlertActive = FALSE]
  IN updateAlertForLocation(h2, t.alertType, t.location)

\* variant of isNearby that is false when no location is resolved
isNearby_failClosed(location, snapshot) ==
  IF location.kind # "null"
  THEN getDistance(location, snapshot) < EVENT_RADIUS
  ELSE FALSE

\* variant of isNearby that compares with the hazard radius
isNearby_dangerRadius(location, snapshot) ==
  IF location.kind # "null"
  THEN getDistance(location, snapshot) < DANGER_CHECK_RADIUS
  ELSE TRUE

\* variant of isRecent that takes an event without server timestamp as just written
isRecent_pendingNow(snapshot) ==
  ~snapshot.empty /\ (snapshot.pending \/ snapshot.age < RECENCY_WINDOW)

\* variant of isRecent that counts an event of exactly RECENCY_WINDOW as recent
isRecent_inclusive(snapshot) ==
  ~snapshot.empty /\ ~snapshot.pending /\ snapshot.age <= RECENCY_WINDOW

\* classification of a snapshot by the listener
isRecent(snapshot) ==
  ~snapshot.empty /\ ~snapshot.pending /\ snapshot.age < RECENCY_WINDOW

isNearby(location, snapshot) ==
  IF location.kind # "null"
  THEN getDistance(location, snapshot) < EVENT_RADIUS
  ELSE TRUE

isActiveEvent(location, snapshot) ==
  isRecent(snapshot) /\ isNearby(location, snapshot)

\* the "revert" of the listener's three clearing branches
ListenerRevert(h) ==
  updateAlertForLocation(
    clearSideNotification([h EXCEPT !.isGunshotAlertActive = FALSE]),
    h.alertState.type, h.currentLocation)

\* variant of the listener without the isManualSimulationActive conditions
onSnapshot_noSuppression(h, snapshot) ==
  LET currentType == h.alertState.type
      raise == LET h1 == SetState([h EXCEPT !.isGunshotAlertActive = TRUE],
                                  "alertState", GunshotAlert)
                   h2 == SetState(h1, "showSideNotification", TRUE)
                   h3 == IF h2.sideNotificationTimer # 0
                         THEN clearTimeout(h2, h2.sideNotificationTimer) ELSE h2
               IN setDisplayTimeout(h3, "listener", h.currentLocation, currentType)
  IN IF ~snapshot.empty /\ isRecent(snapshot)
     THEN LET nearby == isNearby(h.currentLocation, snapshot)
          IN IF nearby /\ currentType # "gunshot" THEN raise
             ELSE IF ~nearby /\ currentType = "gunshot" THEN ListenerRevert(h)
             ELSE h
     ELSE IF currentType = "gunshot" THEN ListenerRevert(h) ELSE h

\* variant of the listener that raises the event (flag, notification, timer)
\* but replaces the alert only when none is shown
onSnapshot_keepCrime(h, snapshot) ==
  LET currentType == h.alertState.type
      flagged == [h EXCEPT !.isGunshotAlertActive = TRUE]
      h1 == IF currentType = "null" THEN SetState(flagged, "alertState", GunshotAlert)
            ELSE flagged
      h2 == SetState(h1, "showSideNotification", TRUE)
      h3 == IF h2.sideNotificationTimer # 0
            THEN clearTimeout(h2, h2.sideNotificationTimer) ELSE h2
      raise == setDisplayTimeout(h3, "listener", h.currentLocation, currentType)
      clear == currentType = "gunshot" /\ ~h.isGunshotAlertActive
  IN IF ~snapshot.empty /\ isRecent(snapshot)
     THEN LET nearby == isNearby(h.currentLocation, snapshot)
          IN IF nearby /\ currentType # "gunshot" /\ ~h.isGunshotAlertActive THEN raise
             ELSE IF ~nearby /\ clear THEN ListenerRevert(h)
             ELSE h
     ELSE IF clear THEN ListenerRevert(h) ELSE h

\* variant of the listener that shows the alert for a recent nearby event and
\* clears a shown one on the next read, without flag or timer
onSnapshot_toggle(h, snapshot) ==
  LET currentType == h.alertState.type
  IN IF ~snapshot.empty /\ isRecent(snapshot)
        /\ isNearby(h.currentLocation, snapshot) /\ currentType # "gunshot"
     THEN SetState(h, "alertState", GunshotAlert)
     ELSE IF currentType = "gunshot"
          THEN SetState(h, "alertState", NoAlert)
          ELSE h

\* variant of the listener whose raise branch does not look at the current type
onSnapshot_reRaise(h, snapshot) ==
  LET currentType == h.alertState.type
      clear == currentType = "gunshot" /\ ~h.isGunshotAlertActive
      h1 == SetState([h EXCEPT !.isGunshotAlertActive = TRUE], "alertState", GunshotAlert)
      h2 == SetState(h1, "showSideNotification", TRUE)
      h3 == IF h2.sideNotificationTimer # 0
            THEN clearTimeout(h2, h2.sideNotificationTimer) ELSE h2
      raise == setDisplayTimeout(h3, "listener", h.currentLocation, currentType)
  IN IF ~snapshot.empty /\ isRecent(snapshot)
     THEN LET nearby == isNearby(h.currentLocation, snapshot)
          IN IF nearby /\ ~h.isGunshotAlertActive THEN raise
             ELSE IF ~nearby /\ clear THEN ListenerRevert(h)
             ELSE h
     ELSE IF clear THEN ListenerRevert(h) ELSE h

\* the snapshot callback of onSnapshot; the effect is re-run on every change
\* of currentLocation and alertState.type, so its closure holds the current ones
onSnapshot(h, snapshot) ==
  LET currentType == h.alertState.type
      isManualSimulationActive == h.isGunshotAlertActive
  IN IF ~snapshot.empty
     THEN IF isRecent(snapshot)
          THEN LET nearby == isNearby(h.currentLocation, snapshot)
               IN IF nearby /\ currentType # "gunshot" /\ ~isManualSimulationActive
                  THEN LET h1 == SetState([h EXCEPT !.isGunshotAlertActive = TRUE],
                                          "alertState", GunshotAlert)
                           h2 == SetState(h1, "showSideNotification", TRUE)
                           h3 == IF h2.sideNotificationTimer # 0
                                 THEN clearTimeout(h2, h2.sideNotificationTimer) ELSE h2
                       IN setDisplayTimeout(h3, "listener", h.currentLocation, currentType)
                  ELSE IF ~nearby /\ currentType = "gunshot" /\ ~isManualSimulationActive
                       THEN ListenerRevert(h)
                       ELSE h
          ELSE IF currentType = "gunshot" /\ ~isManualSimulationActive
               THEN ListenerRevert(h)
               ELSE h
     ELSE IF currentType = "gunshot" /\ ~isManualSimulationActive
          THEN ListenerRevert(h)
          ELSE h

\* variant of the error callback that also clears the alert
onSnapshotError_clearAlert(h) ==
  SetState(clearSideNotification(h), "alertState", NoAlert)

\* variant of the error callback that reports the failure in the error field
onSnapshotError_setError(h) ==
  SetState(clearSideNotification(h), "error", WriteError)

\* the error callback of onSnapshot
onSnapshotError(h) == clearSideNotification(h)

\* cleanup of every effect at unmount
unmount(h) ==
  [ListenerEffectCleanup(GpsEffectCleanup(h)) EXCEPT !.mounted = FALSE]

\* ---------------------------------------------------------------- actions
TypeOK ==
  /\ alertState.type \in {"null", "crime", "gunshot"}
  /\ locationSource \in {"null", "gps", "manual"}
  /\ isLoadingLocation \in BOOLEAN /\ showSideNotification \in BOOLEAN
  /\ isGunshotAlertActive \in BOOLEAN /\ mounted \in BOOLEAN
  /\ pendingWrites \in 0..MaxWrites
  /\ feed \in [empty : BOOLEAN, x : Int, y : Int, pending : BOOLEAN, age : 0..AgeCap]

\* the state after the first render and its effects: the GPS effect has
\* called getGeoLocation(), the location effect found no location, the
\* listener has subscribed
Init ==
  /\ currentLocation = NoLocation
  /\ locationSource = "null"
  /\ alertState = NoAlert
  /\ isLoadingLocation = TRUE
  /\ error = NoError
  /\ showSideNotification = FALSE
  /\ isGunshotAlertActive = FALSE
  /\ sideNotificationTimer = 0
  /\ timeouts = {}
  /\ geoRequests = { [id |-> 1, isMounted |-> TRUE, alertType |-> "null"] }
  /\ geoRequestCount = 1
  /\ pendingWrites = 0
  /\ feed \in Snapshots
  /\ feedPending = TRUE
  /\ mounted = TRUE
  /\ lastFeedActive = FALSE
  /\ lastOp = "mount"

GpsSuccess ==
  \E r \in geoRequests : \E location \in GpsFixes :
    /\ Commit(React(getGeoLocationResolved(Hook, r, location)))
    /\ lastOp' = "gpsSuccess"
    /\ UNCHANGED << feed, lastFeedActive >>

GpsFailure ==
  \E r \in geoRequests : \E message \in GeolocationErrors :
    /\ Commit(React(getGeoLocationRejected(Hook, r, message)))
    /\ lastOp' = "gpsFailure"
    /\ UNCHANGED << feed, lastFeedActive >>

ManualSelect ==
  \E i \in DOMAIN PREDEFINED_LOCATIONS :
    /\ mounted
    /\ Commit(React(manuallySetLocation(Hook, PREDEFINED_LOCATIONS[i])))
    /\ lastOp' = "manual"
    /\ UNCHANGED << feed, lastFeedActive >>

SimulateGunshot ==
  /\ mounted
  /\ pendingWrites < MaxWrites
  /\ Commit(React(simulateGunshot(Hook)))
  /\ lastOp' = "simulate"
  /\ UNCHANGED << feed, lastFeedActive >>

WriteSuccess ==
  /\ pendingWrites > 0
  /\ Commit(React(addDocResolved(Hook)))
  /\ lastOp' = "writeSuccess"
  /\ UNCHANGED << feed, lastFeedActive >>

WriteFailure ==
  /\ pendingWrites > 0
  /\ Commit(React(addDocRejected(Hook)))
  /\ lastOp' = "writeFailure"
  /\ UNCHANGED << feed, lastFeedActive >>

FeedDelivery ==
  /\ mounted
  /\ feedPending
  /\ Commit(React(onSnapshot([Hook EXCEPT !.feedPending = FALSE], feed)))
  /\ lastFeedActive' = isActiveEvent(currentLocation, feed)
  /\ lastOp' = "feed"
  /\ UNCHANGED feed

FeedError ==
  /\ mounted
  /\ Commit(React(onSnapshotError(Hook)))
  /\ lastOp' = "feedError"
  /\ UNCHANGED << feed, lastFeedActive >>

TimerExpiry ==
  \E t \in timeouts :
    /\ t.remaining = 0
    /\ Commit(React(displayTimerCallback(Hook, t)))
    /\ lastOp' = "timer"
    /\ UNCHANGED << feed, lastFeedActive >>

Unmount ==
  /\ mounted
  /\ Commit(unmount(Hook))
  /\ lastOp' = "unmount"
  /\ UNCHANGED << feed, lastFeedActive >>

\* the store's newest document changes (a commit by any client, a server
\* timestamp resolving, a deletion) and the subscription is notified
FeedChange ==
  \E snapshot \in Snapshots :
    /\ snapshot # feed
    /\ feed' = snapshot
    /\ feedPending' = mounted
    /\ lastOp' = "feedChange"
    /\ UNCHANGED << currentLocation, locationSource, alertState,
                    isLoadingLocation, error, showSideNotification,
                    isGunshotAlertActive, sideNotificationTimer, timeouts,
                    geoRequests, geoRequestCount, pendingWrites, mounted,
                    lastFeedActive >>

Min(a, b) == IF a < b THEN a ELSE b
Max(a, b) == IF a > b THEN a ELSE b

\* TickMs of time pass; a due timer fires before more time passes
Tick ==
  /\ \A t \in timeouts : t.remaining > 0
  /\ timeouts # {} \/ (~feed.empty /\ ~feed.pending /\ feed.age < AgeCap)
  /\ timeouts' = { [t EXCEPT !.remaining = Max(0, @ - TickMs)] : t \in timeouts }
  /\ feed' = IF feed.empty \/ feed.pending THEN feed
             ELSE [feed EXCEPT !.age = Min(AgeCap, @ + TickMs)]
  /\ lastOp' = "tick"
  /\ UNCHANGED << currentLocation, locationSource, alertState,
                  isLoadingLocation, error, showSideNotification,
                  isGunshotAlertActive, sideNotificationTimer,
                  geoRequests, geoRequestCount, pendingWrites, feedPending,
                  mounted, lastFeedActive >>

Next ==
  \/ GpsSuccess
  \/ GpsFailure
  \/ ManualSelect
  \/ SimulateGunshot
  \/ WriteSuccess
  \/ WriteFailure
  \/ FeedDelivery
  \/ FeedError
  \/ TimerExpiry
  \/ Unmount
  \/ FeedChange
  \/ Tick

Spec == Init /\ [][Next]_vars

\* ============================================================== properties
\* what the Proximity Classifier of updateAlertForLocation dictates for a
\* location: "crime" (HAZARD) or "null" (NONE)
ClassifierType(location) ==
  IF location.kind # "null" /\ DangerCheck(location).isNear THEN "crime" ELSE "null"

\* the display timer the ref holds is pending
TimerPending ==
  \E t \in timeouts : t.id = sideNotificationTimer

\* the display timer was started in this step
TimerStarted ==
  \E t \in timeouts' : t.id = sideNotificationTimer' /\ t.remaining = DISPLAY_MS

\* nothing is queued: no timer, no device fetch, no write, no feed delivery
Quiescent ==
  /\ mounted
  /\ timeouts = {}
  /\ geoRequests = {}
  /\ pendingWrites = 0
  /\ ~feedPending

\* C1: while the display timer started by simulateGunshot is pending, a feed
\* delivery (empty, stale, far away or with a pending timestamp) leaves the
\* alert EVENT and leaves the suppression flag and the timer as they were.
C1_FeedKeepsLocalEvent ==
  [][ (lastOp' = "feed" /\ \E t \in timeouts : t.by = "simulate")
      => /\ alertState'.type = "gunshot"
         /\ alertState' = alertState
         /\ isGunshotAlertActive' = isGunshotAlertActive
         /\ timeouts' = timeouts
         /\ sideNotificationTimer' = sideNotificationTimer ]_vars

C1_Witness ==
  /\ lastOp = "feed"
  /\ feed.empty
  /\ isGunshotAlertActive
  /\ alertState.type = "gunshot"
  /\ \E t \in timeouts : t.by = "simulate" /\ t.id = sideNotificationTimer

\* C2: simulateGunshot with a resolved location sets the alert to EVENT, sets
\* the suppression flag, starts the 10,000 ms timer and starts the store
\* write in one step; neither outcome of the write changes the alert.
C2_LocalTriggerImmediate ==
  [][ /\ (lastOp' = "simulate" /\ currentLocation.kind # "null")
         => /\ alertState' = GunshotAlert
            /\ isGunshotAlertActive'
            /\ TimerStarted
            /\ DISPLAY_MS = 10000
            /\ pendingWrites' = pendingWrites + 1
      /\ (lastOp' \in {"writeSuccess", "writeFailure"})
         => alertState' = alertState ]_vars

C2_Witness ==
  /\ lastOp = "writeFailure"
  /\ alertState.type = "gunshot"
  /\ error = WriteError

\* C3 (as claimed): when the display timer elapses the suppression flag is
\* cleared and the alert becomes what the classifier dictates for the current
\* location (HAZARD or NONE); it does not remain EVENT.
C3_ExpiryFallsBack ==
  [][ lastOp' = "timer"
      => /\ ~isGunshotAlertActive'
         /\ alertState'.type = ClassifierType(currentLocation') ]_vars

\* C4 (as claimed): a manual selection made while the alert is EVENT clears
\* the flag, cancels the timer and leaves the alert at the classifier's
\* HAZARD/NONE for the selected entry.
C4_ManualOverridesEvent ==
  [][ (lastOp' = "manual" /\ alertState.type = "gunshot")
      => /\ ~isGunshotAlertActive'
         /\ timeouts' = {}
         /\ sideNotificationTimer' = 0
         /\ alertState'.type = ClassifierType(currentLocation') ]_vars

\* C5 (as claimed): when nothing is queued and the suppression flag is false
\* the alert is exactly the classifier's verdict for the current location.
C5_UnsuppressedIsClassifier ==
  (Quiescent /\ ~isGunshotAlertActive)
    => alertState.type = ClassifierType(currentLocation)

\* C6: the alert is never HAZARD while the suppression flag is true and the
\* last feed classification was active.
C6_NoHazardWhileSuppressed ==
  ~(alertState.type = "crime" /\ isGunshotAlertActive /\ lastFeedActive)

C6_Witness ==
  /\ lastOp = "gpsSuccess"
  /\ isGunshotAlertActive
  /\ lastFeedActive
  /\ ClassifierType(currentLocation) = "crime"
  /\ alertState.type = "gunshot"

\* C7: delivering a snapshot and then delivering the same snapshot again
\* leaves the alert as the first delivery left it, from every reachable state.
Delivered(h, snapshot) == Flush(Deps(h), onSnapshot(h, snapshot))

C8_RemoteDetection ==
  [][ (/\ lastOp' = "feed"
       /\ alertState.type # "gunshot"
       /\ ~isGunshotAlertActive
       /\ ~feed.empty /\ ~feed.pending
       /\ feed.age < 60000
       /\ (currentLocation.kind = "null" \/ getDistance(currentLocation, feed) < 1000))
      => /\ alertState' = GunshotAlert
         /\ isGunshotAlertActive'
         /\ TimerStarted ]_vars

C8_Witness ==
  /\ lastOp = "feed"
  /\ feed.age = 59000
  /\ currentLocation.kind # "null"
  /\ getDistance(currentLocation, feed) = 900
  /\ alertState.type = "gunshot"
  /\ isGunshotAlertActive
  /\ \E t \in timeouts : t.by = "listener" /\ t.id = sideNotificationTimer

\* C9 (as claimed): with the alert EVENT and the flag false, a delivery that
\* is classified inactive changes the alert to the classifier's HAZARD/NONE.
C9_InactiveFeedReverts ==
  [][ (/\ lastOp' = "feed"
       /\ alertState.type = "gunshot"
       /\ ~isGunshotAlertActive
       /\ ~isActiveEvent(currentLocation, feed))
      => alertState'.type = ClassifierType(currentLocation') ]_vars

\* C10: after a manual selection, the completion of the device fetch that
\* was in flight changes neither location, provenance, isLoading, error nor
\* the alert.
C10_LateFixDiscarded ==
  [][ (lastOp' \in {"gpsSuccess", "gpsFailure"} /\ locationSource = "manual")
      => /\ currentLocation' = currentLocation
         /\ locationSource' = "manual"
         /\ isLoadingLocation' = isLoadingLocation
         /\ error' = error
         /\ alertState' = alertState ]_vars

C10_Witness ==
  /\ lastOp \in {"gpsSuccess", "gpsFailure"}
  /\ locationSource = "manual"
  /\ currentLocation.kind = "named"
  /\ geoRequests = {}

\* C11: when the write started by simulateGunshot fails, error is the
\* write-failure message, the alert is not rolled back (an EVENT alert is
\* still EVENT), the suppression flag is false and no display timer is pending.
C11_WriteFailure ==
  [][ (lastOp' = "writeFailure" /\ mounted)
      => /\ error' = WriteError
         /\ alertState' = alertState
         /\ ~isGunshotAlertActive'
         /\ sideNotificationTimer' = 0
         /\ timeouts' = {} ]_vars

C11_Witness ==
  /\ lastOp = "writeFailure"
  /\ mounted
  /\ error = WriteError
  /\ alertState.type = "gunshot"
  /\ ~isGunshotAlertActive
  /\ timeouts = {}
  /\ ~showSideNotification

\* C12: when the device fetch fails and no manual selection has been made,
\* error is a message, isLoading is false, the location stays null and the
\* alert is not HAZARD.
C12_DeviceFailure ==
  [][ (lastOp' = "gpsFailure" /\ mounted /\ locationSource # "manual")
      => /\ error' # NoError
         /\ error' \in GeolocationErrors
         /\ ~isLoadingLocation'
         /\ currentLocation' = NoLocation
         /\ alertState'.type # "crime" ]_vars

C12_Witness ==
  /\ lastOp = "gpsFailure"
  /\ locationSource = "null"
  /\ error = "User denied the request for Geolocation."
  /\ ~isLoadingLocation
  /\ alertState.type = "null"

\* C13: a device failure delivered while an EVENT alert is showing never
\* changes the alert away from EVENT.
C13_DeviceFailureKeepsEvent ==
  [][ (lastOp' = "gpsFailure" /\ alertState.type = "gunshot")
      => alertState' = alertState ]_vars

C13_Witness ==
  /\ lastOp = "gpsFailure"
  /\ error \in GeolocationErrors
  /\ currentLocation = NoLocation
  /\ alertState.type = "gunshot"

\* C14: the error callback of the feed subscription leaves the alert
\* unchanged, whatever its kind.
C14_FeedErrorKeepsAlert ==
  [][ lastOp' = "feedError" => alertState' = alertState ]_vars

C14_Witness ==
  /\ lastOp = "feedError"
  /\ alertState.type = "gunshot"
  /\ isGunshotAlertActive

\* C15: simulateGunshot with no location resolved only sets error: alert,
\* suppression flag, timer and side notification are unchanged and no write
\* is started.
C15_TriggerWithoutLocation ==
  [][ (lastOp' = "simulate" /\ currentLocation.kind = "null")
      => /\ error' = NoLocationError
         /\ alertState' = alertState
         /\ isGunshotAlertActive' = isGunshotAlertActive
         /\ timeouts' = timeouts
         /\ sideNotificationTimer' = sideNotificationTimer
         /\ showSideNotification' = showSideNotification
         /\ pendingWrites' = pendingWrites ]_vars

C15_Witness ==
  /\ lastOp = "simulate"
  /\ currentLocation = NoLocation
  /\ error = NoLocationError
  /\ pendingWrites = 0

\* C16: from every state, manuallySetLocation makes the selected catalog
\* entry the current location with provenance manual, sets isLoading to
\* false and clears error.
C16_ManualSelection ==
  mounted =>
    \A i \in DOMAIN PREDEFINED_LOCATIONS :
      LET h == React(manuallySetLocation(Hook, PREDEFINED_LOCATIONS[i]))
      IN /\ h.currentLocation = PREDEFINED_LOCATIONS[i]
         /\ h.locationSource = "manual"
         /\ ~h.isLoadingLocation
         /\ h.error = NoError

\* a selection made while the device fetch was still in flight
C16_Witness ==
  /\ lastOp = "manual"
  /\ geoRequests # {}
  /\ currentLocation = PREDEFINED_LOCATIONS[4]
  /\ locationSource = "manual"
  /\ ~isLoadingLocation
  /\ error = NoError

\* C17: getGeoLocation() is called at most once per mount.
C17_SingleDeviceFetch ==
  geoRequestCount <= 1

\* after the fetch has completed, a manual selection and an alert change
C17_Witness ==
  /\ geoRequestCount = 1
  /\ geoRequests = {}
  /\ locationSource = "manual"
  /\ alertState.type = "crime"
  /\ lastOp = "timer"

\* C18 (as claimed): after a manual selection the alert is HAZARD if the
\* entry is flagged hazardous or lies within the proximity radius of a
\* hazardous site, and NONE otherwise.
C18_ManualHazardOrProximity ==
  [][ lastOp' = "manual"
      => alertState'.type =
           IF currentLocation'.isDangerous
              \/ checkProximityToDanger(currentLocation').isNear
           THEN "crime" ELSE "null" ]_vars

\* C19 (as claimed): when a device fix resolves the location while the
\* suppression flag is false, the alert becomes HAZARD if the fix is within
\* the proximity radius of a hazardous site and NONE otherwise.
C19_DeviceFixClassified ==
  [][ (/\ lastOp' = "gpsSuccess"
       /\ currentLocation = NoLocation
       /\ currentLocation'.kind = "gps"
       /\ ~isGunshotAlertActive)
      => alertState'.type =
           IF checkProximityToDanger(currentLocation').isNear
           THEN "crime" ELSE "null" ]_vars

\* C20: with no location resolved, a delivery of a recent event is
\* classified nearby whatever its coordinate; with the suppression flag
\* false the alert is EVENT afterwards, and if it was not EVENT before the
\* flag is set and the timer started.
C20_FailOpen ==
  [][ (/\ lastOp' = "feed"
       /\ currentLocation = NoLocation
       /\ ~feed.empty /\ ~feed.pending /\ feed.age < RECENCY_WINDOW
       /\ ~isGunshotAlertActive)
      => /\ lastFeedActive'
         /\ alertState' = GunshotAlert
         /\ (alertState.type # "gunshot" => isGunshotAlertActive' /\ TimerStarted) ]_vars

C20_Witness ==
  /\ lastOp = "feed"
  /\ currentLocation = NoLocation
  /\ lastFeedActive
  /\ alertState.type = "gunshot"
  /\ isGunshotAlertActive
  /\ \E t \in timeouts : t.by = "listener" /\ t.location = NoLocation
                         /\ t.remaining = DISPLAY_MS

\* C21: a delivery whose newest event has no server timestamp yet is
\* classified not recent and never takes the alert to EVENT, at any distance
\* from the current location and with no location as well.
C21_PendingTimestampNotRecent ==
  [][ (/\ lastOp' = "feed"
       /\ ~feed.empty /\ feed.pending)
      => /\ ~lastFeedActive'
         /\ (alertState'.type = "gunshot" => alertState.type = "gunshot")
         /\ timeouts' \subseteq timeouts ]_vars

C21_Witness ==
  /\ lastOp = "feed"
  /\ ~feed.empty /\ feed.pending
  /\ currentLocation.kind # "null"
  /\ getDistance(currentLocation, feed) < EVENT_RADIUS
  /\ ~isGunshotAlertActive
  /\ alertState.type # "gunshot"

\* C22 (as claimed): after the hook is unmounted no later reaction changes
\* anything the hook holds, refs included, and no feed delivery or timer
\* callback runs.
C22_NothingAfterTeardown ==
  [][ ~mounted
      => /\ UNCHANGED << currentLocation, locationSource, alertState,
                         isLoadingLocation, error, showSideNotification,
                         isGunshotAlertActive, sideNotificationTimer, timeouts >>
         /\ lastOp' \notin {"feed", "timer"} ]_vars

\* C22 (amended): the unmount cancels the pending display timer, marks every
\* device fetch as unmounted and releases the feed subscription; afterwards
\* no reaction changes the location, its source, the alert, the loading and
\* error fields or the side notification, no timer exists, no feed delivery
\* or timer callback runs, and the only thing still written is the ref
\* isGunshotAlertActive, which the catch block of a failed write resets.
C22_TeardownSilencesReactions ==
  [][ /\ lastOp' = "unmount"
         => /\ timeouts' = {}
            /\ sideNotificationTimer' = 0
            /\ ~feedPending'
            /\ \A r \in geoRequests' : ~r.isMounted
      /\ ~mounted
         => /\ UNCHANGED << currentLocation, locationSource, alertState,
                            isLoadingLocation, error, showSideNotification,
                            sideNotificationTimer, timeouts >>
            /\ timeouts = {}
            /\ ~feedPending'
            /\ lastOp' \notin {"feed", "timer"}
            /\ (isGunshotAlertActive' # isGunshotAlertActive
                  => lastOp' = "writeFailure" /\ ~isGunshotAlertActive') ]_vars

\* a device fix arrived after the unmount and was dropped, the feed holds a
\* recent event that is not delivered, and the alert the unmount found is kept
C22_Witness ==
  /\ ~mounted
  /\ lastOp = "gpsSuccess"
  /\ currentLocation = NoLocation
  /\ isLoadingLocation
  /\ geoRequests = {}
  /\ timeouts = {}
  /\ alertState.type = "gunshot"
  /\ isGunshotAlertActive

C24_FixDuringSuppressedEvent ==
  [][ /\ (/\ lastOp' = "gpsSuccess"
          /\ currentLocation = NoLocation
          /\ currentLocation'.kind = "gps"
          /\ alertState.type = "gunshot"
          /\ isGunshotAlertActive
          /\ TimerPending)
         => /\ alertState'.type = "gunshot"
            /\ timeouts' = timeouts
            /\ sideNotificationTimer' = sideNotificationTimer
      /\ (/\ lastOp' = "timer"
          /\ currentLocation.kind = "gps"
          /\ \E t \in timeouts : /\ t.id = sideNotificationTimer
                                 /\ t.by = "listener"
                                 /\ t.location = NoLocation)
         => alertState'.type = ClassifierType(currentLocation') ]_vars

\* C25: every step that takes the alert from EVENT to HAZARD or NONE is a
\* timer expiry, a manual selection or a feed delivery processed with the
\* suppression flag false; a device fix, a device failure, a write
\* completion and a feed error never do.
C25_ExitsFromEvent ==
  [][ (alertState.type = "gunshot" /\ alertState'.type # "gunshot")
      => \/ lastOp' = "timer"
         \/ lastOp' = "manual"
         \/ (lastOp' = "feed" /\ ~isGunshotAlertActive) ]_vars

\* a timer expiry has just replaced the EVENT alert by the hazard warning
C25_Witness ==
  /\ lastOp = "timer"
  /\ alertState.type = "crime"
  /\ ~isGunshotAlertActive
  /\ timeouts = {}

\* C26: a delivery of a recent nearby event (or recent, with no location)
\* while the alert is already EVENT changes nothing: the alert, the
\* suppression flag, the display timer and the side notification are as
\* before, whether the flag is set or not.
C26_ActiveDeliveryOnEvent ==
  [][ (/\ lastOp' = "feed"
       /\ alertState.type = "gunshot"
       /\ ~feed.empty /\ ~feed.pending /\ feed.age < RECENCY_WINDOW
       /\ (currentLocation = NoLocation
             \/ getDistance(currentLocation, feed) < EVENT_RADIUS))
      => /\ lastFeedActive'
         /\ UNCHANGED << alertState, isGunshotAlertActive, sideNotificationTimer,
                         timeouts, showSideNotification >> ]_vars

\* the delivery came when the running timer was already due and did not
\* restart it
C26_Witness ==
  /\ lastOp = "feed"
  /\ lastFeedActive
  /\ alertState.type = "gunshot"
  /\ isGunshotAlertActive
  /\ \E t \in timeouts : t.id = sideNotificationTimer /\ t.remaining = 0

\* C27: every change of the location re-subscribes the listener, so the
\* newest event is delivered again without a change of the feed; when that
\* delivery finds the new location within 1000 m of a still recent event,
\* the suppression flag false and the alert not EVENT, the alert becomes
\* EVENT, the flag is set and the display timer started.
C27_ReclassifiedOnLocationChange ==
  [][ /\ (currentLocation' # currentLocation) => feedPending'
      /\ (/\ lastOp' = "feed"
          /\ lastOp \in {"manual", "gpsSuccess"}
          /\ currentLocation # NoLocation
          /\ ~feed.empty /\ ~feed.pending /\ feed.age < RECENCY_WINDOW
          /\ getDistance(currentLocation, feed) < EVENT_RADIUS
          /\ ~isGunshotAlertActive
          /\ alertState.type # "gunshot")
         => /\ alertState' = GunshotAlert
            /\ isGunshotAlertActive'
            /\ TimerStarted ]_vars

\* the event was ten seconds old or more when the delivery that follows a
\* manual selection of Safe Park raised EVENT for the event at Downtown Crossing
C27_Witness ==
  /\ lastOp = "feed"
  /\ locationSource = "manual"
  /\ currentLocation.name = "Safe Park"
  /\ ~feed.empty /\ ~feed.pending /\ feed.age >= TickMs
  /\ alertState.type = "gunshot"
  /\ isGunshotAlertActive
  /\ \E t \in timeouts : /\ t.id = sideNotificationTimer
                         /\ t.by = "listener"
                         /\ t.location = currentLocation
                         /\ t.remaining = DISPLAY_MS

\* C28: the thresholds at their boundaries. A delivered event with a server
\* timestamp raises EVENT (from a state that is not EVENT, flag false, at a
\* resolved location) iff its age is below 60000 ms and its distance below
\* 1000 m, so neither age 60000 nor distance 1000 does; a device fix gives
\* HAZARD iff some hazardous site is at 500 m or less, so distance 500 does.
C28_ThresholdBoundaries ==
  [][ /\ (/\ lastOp' = "feed"
          /\ ~feed.empty /\ ~feed.pending
          /\ currentLocation # NoLocation
          /\ ~isGunshotAlertActive
          /\ alertState.type # "gunshot")
         => /\ alertState'.type = "gunshot"
                 <=> (feed.age < 60000 /\ getDistance(currentLocation, feed) < 1000)
            /\ lastFeedActive' <=> alertState'.type = "gunshot"
      /\ (/\ lastOp' = "gpsSuccess"
          /\ currentLocation'.kind = "gps"
          /\ currentLocation = NoLocation
          /\ ~isGunshotAlertActive
          /\ alertState.type # "gunshot")
         => (alertState'.type = "crime"
               <=> \E i \in DOMAIN PREDEFINED_LOCATIONS :
                     /\ PREDEFINED_LOCATIONS[i].isDangerous
                     /\ getDistance(currentLocation', PREDEFINED_LOCATIONS[i]) <= 500) ]_vars

\* a fix exactly 500 m from Downtown Crossing shows the hazard warning, and
\* the delivery of an event 500 m away and exactly 60000 ms old left it
C28_Witness ==
  /\ lastOp = "feed"
  /\ currentLocation.kind = "gps"
  /\ getDistance(currentLocation, PREDEFINED_LOCATIONS[2]) = 500
  /\ alertState.type = "crime"
  /\ alertState.name = "Downtown Crossing"
  /\ ~feed.empty /\ ~feed.pending /\ feed.age = 60000
  /\ getDistance(currentLocation, feed) < 1000
  /\ ~lastFeedActive
  /\ ~isGunshotAlertActive

\* catalogs on which the search of checkProximityToDanger is exercised
\* besides PREDEFINED_LOCATIONS: the orderings of Downtown Crossing, a
\* hazardous site 400 m north of it and a non-hazardous one 500 m north of it,
\* so that a device fix can have two hazardous sites in the radius
SampleSites ==
  { DefinedLocation("Downtown Crossing", -120, 311, TRUE),
    DefinedLocation("North Gate", -120, 711, TRUE),
    DefinedLocation("Kiosk", -120, 811, FALSE) }

SampleCatalogs ==
  { s \in { << a, b, c >> : a \in SampleSites, b \in SampleSites, c \in SampleSites } :
      s[1] # s[2] /\ s[1] # s[3] /\ s[2] # s[3] }

\* C29: for a device fix, checkProximityToDanger (the search over a catalog)
\* returns the name of the first hazardous entry, in catalog order, within
\* DANGER_CHECK_RADIUS (not the nearest), skips non-hazardous entries, and
\* returns no hazard when no hazardous entry is within the radius.
C29_FirstHazardInCatalogOrder ==
  currentLocation.kind = "gps" =>
    /\ \A catalog \in SampleCatalogs \cup {PREDEFINED_LOCATIONS} :
         LET near == { i \in DOMAIN catalog :
                         /\ catalog[i].isDangerous
                         /\ getDistance(currentLocation, catalog[i]) <= 500 }
             found == FirstNear(catalog, currentLocation, 1)
         IN IF near = {}
            THEN found = [isNear |-> FALSE, name |-> ""]
            ELSE /\ found.isNear
                 /\ found.name = catalog[CHOOSE i \in near : \A j \in near : i <= j].name
    /\ checkProximityToDanger(currentLocation)
         = FirstNear(PREDEFINED_LOCATIONS, currentLocation, 1)

\* the fix has a non-hazardous entry at 0 m that comes first, Downtown
\* Crossing at 500 m second and a hazardous entry at 100 m third: the
\* search returns Downtown Crossing; with the deployed catalog the alert
\* names Downtown Crossing as well
C29_Witness ==
  /\ lastOp = "gpsSuccess"
  /\ currentLocation.kind = "gps"
  /\ alertState.type = "crime"
  /\ alertState.name = "Downtown Crossing"
  /\ LET catalog == << DefinedLocation("Kiosk", -120, 811, FALSE),
                       DefinedLocation("Downtown Crossing", -120, 311, TRUE),
                       DefinedLocation("North Gate", -120, 711, TRUE) >>
     IN /\ catalog \in SampleCatalogs
        /\ getDistance(currentLocation, catalog[1]) = 0
        /\ getDistance(currentLocation, catalog[3])
             < getDistance(currentLocation, catalog[2])
        /\ FirstNear(catalog, currentLocation, 1)
             = [isNear |-> TRUE, name |-> "Downtown Crossing"]

\* C30 (as claimed): in every reachable state of the mounted hook, the
\* suppression flag isGunshotAlertActive set implies that the display timer
\* held by sideNotificationTimer is pending.
C30_FlagImpliesTimer ==
  (mounted /\ isGunshotAlertActive) => TimerPending

\* C31: in every reachable state the suppression flag isGunshotAlertActive
\* set implies that the alert is EVENT: the flag is set only where the EVENT
\* alert is raised, and nothing replaces that alert while the flag is set.
C31_FlagImpliesEvent ==
  isGunshotAlertActive => alertState = GunshotAlert

\* a device fix arrived while the flag was set and the location effect left
\* the EVENT alert in place
C31_Witness ==
  /\ lastOp = "gpsSuccess"
  /\ currentLocation.kind = "gps"
  /\ isGunshotAlertActive
  /\ alertState = GunshotAlert

\* C32 (as claimed): after a timer expiry has taken the alert from EVENT back
\* to HAZARD or NONE, the delivery that follows it directly (no change of the
\* feed, no location change, no user action in between) does not raise EVENT
\* again.
C32_NoFlickerAfterExpiry ==
  [][ (/\ lastOp = "timer"
       /\ alertState.type # "gunshot"
       /\ lastOp' = "feed")
      => alertState'.type # "gunshot" ]_vars

\* C33 (as claimed): simulateGunshot called while the alert is already EVENT
\* starts a fresh display timer in place of the pending one, and when that
\* timer fires at the unchanged location the alert becomes what the
\* classifier gives for the location.
C33_RetriggerFallsBack ==
  [][ /\ (/\ lastOp' = "simulate"
          /\ alertState.type = "gunshot"
          /\ currentLocation # NoLocation)
         => /\ TimerStarted
            /\ Cardinality(timeouts') = 1
      /\ (/\ lastOp' = "timer"
          /\ \E t \in timeouts : /\ t.id = sideNotificationTimer
                                 /\ t.remaining = 0
                                 /\ t.by = "simulate"
                                 /\ t.alertType = "gunshot"
                                 /\ t.location = currentLocation)
         => alertState'.type = ClassifierType(currentLocation') ]_vars

\* C34 (as claimed): a write that fails after the window of its own trigger
\* has ended, while a later EVENT alert raised by the listener is suppressed
\* and its display timer pending, leaves that alert's flag and timer alone.
C34_LateWriteFailure ==
  [][ (/\ lastOp' = "writeFailure"
       /\ mounted
       /\ isGunshotAlertActive
       /\ \E t \in timeouts : t.id = sideNotificationTimer /\ t.by = "listener")
      => /\ isGunshotAlertActive'
         /\ timeouts' = timeouts
         /\ sideNotificationTimer' = sideNotificationTimer
         /\ showSideNotification' = showSideNotification ]_vars

\* C35: in every reachable state the side notification is visible only
\* while the alert is EVENT and the display timer held by the ref is pending,
\* so a callback that hides it is always scheduled.
C35_NotificationHasTimer ==
  showSideNotification
    => /\ alertState = GunshotAlert
       /\ TimerPending
       /\ \A t \in timeouts : t.remaining <= DISPLAY_MS

\* the listener raised the alert and the notification is visible with the
\* timer due
C35_Witness ==
  /\ showSideNotification
  /\ lastOp = "tick"
  /\ alertState = GunshotAlert
  /\ \E t \in timeouts : /\ t.id = sideNotificationTimer
                         /\ t.by = "listener"
                         /\ t.remaining = 0

\* C36: at most one display timer is pending in every reachable state, and
\* it is the one the ref sideNotificationTimer holds: a step that starts a
\* timer cancels the pending one first, so no timer of an earlier alert is
\* left to fire during or after a later one.
C36_SingleDisplayTimer ==
  /\ Cardinality(timeouts) <= 1
  /\ \A t \in timeouts : t.id = sideNotificationTimer
  /\ (timeouts = {} => sideNotificationTimer = 0)

\* the second of two local triggers in a row replaced the first one's timer
C36_Witness ==
  /\ lastOp = "simulate"
  /\ pendingWrites = 2
  /\ Cardinality(timeouts) = 1
  /\ \E t \in timeouts : /\ t.id = sideNotificationTimer
                         /\ t.by = "simulate"
                         /\ t.alertType = "gunshot"
                         /\ t.remaining = DISPLAY_MS

\* C37: in every reachable state locationSource is null iff no location is
\* resolved, 'manual' iff the location is a named catalog entry and 'gps' iff
\* it is an unnamed device coordinate (before and after every step); once it
\* is 'manual' it stays 'manual' in every later state.
C37_SourceMatchesLocation ==
  [][ LET Agree(source, location) ==
            /\ (source = "null") <=> (location = NoLocation)
            /\ (source = "manual")
                 <=> (/\ location.kind = "named"
                      /\ \E i \in DOMAIN PREDEFINED_LOCATIONS :
                           location = PREDEFINED_LOCATIONS[i])
            /\ (source = "gps") <=> (location.kind = "gps" /\ location.name = "")
      IN /\ Agree(locationSource, currentLocation)
         /\ Agree(locationSource', currentLocation')
         /\ (locationSource = "manual" => locationSource' = "manual") ]_vars

\* the device fix arrived after a manual selection of Library Square and
\* the source is still manual at that entry
C37_Witness ==
  /\ lastOp = "gpsSuccess"
  /\ mounted
  /\ locationSource = "manual"
  /\ currentLocation = PREDEFINED_LOCATIONS[4]
  /\ geoRequestCount = 1
  /\ geoRequests = {}

\* C38: in every reachable state of the mounted hook, isLoadingLocation true
\* implies that no location is resolved and the device fetch started at
\* mount has not completed; once isLoadingLocation is false it is false in
\* every later state.
C38_LoadingOnlyWhileFetching ==
  [][ LET Fetching(m, loading, location, requests) ==
            (m /\ loading) => /\ location = NoLocation
                              /\ \E r \in requests : r.isMounted
      IN /\ Fetching(mounted, isLoadingLocation, currentLocation, geoRequests)
         /\ Fetching(mounted', isLoadingLocation', currentLocation', geoRequests')
         /\ (~isLoadingLocation => ~isLoadingLocation') ]_vars

\* the device fetch failed, no location is resolved, and a later feed
\* delivery found isLoadingLocation still false
C38_Witness ==
  /\ mounted
  /\ lastOp = "feed"
  /\ ~isLoadingLocation
  /\ currentLocation = NoLocation
  /\ geoRequests = {}
  /\ error \in GeolocationErrors

\* C39: a feed delivery and a feed error change only the alert side of the
\* state: currentLocation, locationSource, isLoadingLocation and error are
\* the same after the reaction as before it, and no device fetch is started
\* or dropped.
C39_FeedFrame ==
  [][ lastOp' \in {"feed", "feedError"}
      => UNCHANGED << currentLocation, locationSource, isLoadingLocation, error,
                      geoRequests, geoRequestCount >> ]_vars

\* the feed failed while an EVENT alert was showing after a device failure:
\* the reported device error and the loading flag are as the failure left them
C39_Witness ==
  /\ lastOp = "feedError"
  /\ error \in GeolocationErrors
  /\ ~isLoadingLocation
  /\ currentLocation = NoLocation
  /\ locationSource = "null"
  /\ alertState = GunshotAlert

====
